---- MODULE Spec2Model ----
(***************************************************************************)
(* A model of the event_dispatcher crate: the dispatcher type stamped out  *)
(* by the dispatcher! macro (src/src/lib.rs), its add and dispatch         *)
(* methods, the three Listener shapes (a struct with a fixed return value  *)
(* as in src/src/tests.rs, an FnMut closure, a Weak<RefCell<L>>), and the  *)
(* DispatcherCommand protocol.                                             *)
(*                                                                         *)
(* dispatch is a loop; the model takes one step per loop iteration, with   *)
(* the index i and the position pc as state. Vec indices are 0-based in    *)
(* the code and sequences 1-based in TLA+: listeners[i] of the code is     *)
(* listeners[i + 1] here.                                                  *)
(***************************************************************************)
EXTENDS Integers, Sequences, FiniteSets

\* ------------------------------------------------------------------ bounds
\* The number of add calls a behaviour makes.
MaxAdds == 3
\* The number of dispatch calls a behaviour makes.
MaxCalls == 3

\* ------------------------------------------------------------- the program
\* Option<DispatcherCommand>: None and the three commands.
Commands == {"None", "StopListening", "StopPropagation", "StopListeningAndPropagation"}

\* The shared listeners (Rc<RefCell<L>>) a weak entry can refer to. The handler
\* of a referent may return any command at each call.
Referents == {"r1"}

\* The values the caller passes as the companion (event_mut) of a dispatch.
Companions == {0}

\* More of them, for what is claimed of the companion.
CompanionsWide == {0, 2}

Ids == 1..MaxAdds

\* A boxed listener: a listener the dispatcher owns, an EventListener with a
\* fixed ret or a closure that returns one fixed command ("owned"), or a
\* Weak<RefCell<L>> ("weak"). dispatch sees of a listener only the command
\* each on_event call returns, so a listener that returns different commands
\* at different calls is covered by a weak entry whose referent lives on. id
\* is the number of the add call that registered it: the identity of the box.
Entry(id, kind, ret, ref) == [id |-> id, kind |-> kind, ret |-> ret, ref |-> ref]

NewListeners ==
    {[kind |-> "owned", ret |-> c, ref |-> "none"] : c \in Commands}
    \cup {[kind |-> "weak", ret |-> "any", ref |-> r] : r \in Referents}

VARIABLES
    listeners,  \* self.listeners: the Vec of boxed listeners
    alive,      \* alive[r]: the Rc of referent r has not been dropped
    borrowed,   \* borrowed[r]: a RefMut of referent r is held outside dispatch
    pc,         \* "idle", "loop" (inside dispatch) or "panicked"
    i,          \* the loop index of dispatch
    event_mut,  \* the companion value of the running dispatch
    event_mut0, \* the companion value the latest dispatch call was given
    \* history, not read by the program:
    added,      \* the entries added so far, each with the number of dispatch
                \* calls made before it was added (at); its index is its id
    calls,      \* the number of dispatch calls so far
    start,      \* self.listeners at the start of the latest dispatch call
    trace,      \* the on_event calls of the latest dispatch call, in order
    uses,       \* uses[id]: how often the handler of entry id has run
    missed      \* missed[id]: the calls stopped before they reached id

vars == <<listeners, alive, borrowed, pc, i, event_mut, event_mut0,
          added, calls, start, trace, uses, missed>>

hist == <<event_mut0, added, calls, start, trace, uses, missed>>

\* Vec::len
len(v) == Len(v)

\* push mistaken for an insert at the front.
pushFront(v, x) == <<x>> \o v

\* Vec::push
push(v, x) == Append(v, x)

\* swap_remove replaced by Vec::remove: the elements behind idx move up by one
\* and keep their order.
swap_removeKeepsOrder(v, idx) == SubSeq(v, 1, idx) \o SubSeq(v, idx + 2, Len(v))

\* swap_remove mistaken for truncate: element idx and all behind it are dropped.
swap_removeTruncates(v, idx) == SubSeq(v, 1, idx)

\* swap_remove mistaken for pop: the last element is dropped, whatever idx is.
swap_removePopsLast(v, idx) == SubSeq(v, 1, Len(v) - 1)

\* Vec::swap_remove(idx): the last element takes the place of element idx
\* (0-based) and the vector shrinks by one.
swap_remove(v, idx) ==
    [k \in 1..(Len(v) - 1) |-> IF k = idx + 1 THEN v[Len(v)] ELSE v[k]]

\* upgrade that always succeeds: a dropped referent is not noticed.
upgradeAlways(e) == TRUE

\* Weak::upgrade: Some exactly when the referent is still alive.
upgrade(e) == alive[e.ref]

\* Returns with the else branch of the weak listener answering None: an
\* expired weak reference is passed over and stays registered.
ReturnsExpiredNone(e) ==
    CASE e.kind = "owned" -> {e.ret}
      [] e.kind = "weak" -> IF upgrade(e) THEN Commands ELSE {"None"}

\* The commands one call of on_event on entry e may return when it returns.
\* An expired weak reference answers StopListening; a live one forwards to its
\* referent, whose handler returns what it likes; an owned listener returns
\* its ret.
Returns(e) ==
    CASE e.kind = "owned" -> {e.ret}
      [] e.kind = "weak" -> IF upgrade(e) THEN Commands ELSE {"StopListening"}

\* on_event of entry e runs a handler (Listener::on_event of the listener or
\* of the referent), unless e is a weak reference whose referent is gone.
Handles(e) == e.kind # "weak" \/ upgrade(e)

\* borrow_mut replaced by a borrow that never fails: the handler runs although
\* the referent is borrowed elsewhere.
BorrowPanicsNever(e) == FALSE

\* RefCell::borrow_mut panics when the referent is already mutably borrowed.
BorrowPanics(e) == e.kind = "weak" /\ upgrade(e) /\ borrowed[e.ref]

Init ==
    /\ listeners = << >>
    /\ alive = [r \in Referents |-> TRUE]
    /\ borrowed = [r \in Referents |-> FALSE]
    /\ pc = "idle"
    /\ i = 0
    /\ event_mut = 0
    /\ event_mut0 = 0
    /\ added = << >>
    /\ calls = 0
    /\ start = << >>
    /\ trace = << >>
    /\ uses = [id \in Ids |-> 0]
    /\ missed = [id \in Ids |-> 0]

\* Add that deduplicates: a weak reference to a referent the sequence already
\* holds a weak reference to is not pushed.
AddDedups(l) ==
    /\ pc = "idle"
    /\ Len(added) < MaxAdds
    /\ listeners' = IF l.kind = "weak"
                        /\ \E k \in 1..Len(listeners) : listeners[k].ref = l.ref
                     THEN listeners
                     ELSE push(listeners,
                               Entry(Len(added) + 1, l.kind, l.ret, l.ref))
    /\ added' = Append(added, [kind |-> l.kind, ret |-> l.ret, ref |-> l.ref,
                               at |-> calls])
    /\ UNCHANGED <<alive, borrowed, pc, i, event_mut, event_mut0,
                   calls, start, trace, uses, missed>>

\* add(listener): self.listeners.push(listener)
Add(l) ==
    /\ pc = "idle"
    /\ Len(added) < MaxAdds
    /\ listeners' = push(listeners, Entry(Len(added) + 1, l.kind, l.ret, l.ref))
    /\ added' = Append(added, [kind |-> l.kind, ret |-> l.ret, ref |-> l.ref,
                               at |-> calls])
    /\ UNCHANGED <<alive, borrowed, pc, i, event_mut, event_mut0,
                   calls, start, trace, uses, missed>>

\* DispatchBegin that first drops every expired weak reference from the
\* sequence (a retain before the loop).
DispatchBeginPurges(m) ==
    /\ pc = "idle"
    /\ calls < MaxCalls
    /\ pc' = "loop"
    /\ i' = 0
    /\ event_mut' = m
    /\ event_mut0' = m
    /\ calls' = calls + 1
    /\ start' = listeners
    /\ trace' = << >>
    /\ listeners' = SelectSeq(listeners, LAMBDA e : e.kind = "owned" \/ upgrade(e))
    /\ UNCHANGED <<alive, borrowed, added, uses, missed>>

\* DispatchBegin with the index off by one: let mut i = 1.
DispatchBeginAtOne(m) ==
    /\ pc = "idle"
    /\ calls < MaxCalls
    /\ pc' = "loop"
    /\ i' = 1
    /\ event_mut' = m
    /\ event_mut0' = m
    /\ calls' = calls + 1
    /\ start' = listeners
    /\ trace' = << >>
    /\ UNCHANGED <<listeners, alive, borrowed, added, uses, missed>>

\* dispatch, lines 205-206: let mut i = 0, with the caller's companion m.
DispatchBegin(m) ==
    /\ pc = "idle"
    /\ calls < MaxCalls
    /\ pc' = "loop"
    /\ i' = 0
    /\ event_mut' = m
    /\ event_mut0' = m
    /\ calls' = calls + 1
    /\ start' = listeners
    /\ trace' = << >>
    /\ UNCHANGED <<listeners, alive, borrowed, added, uses, missed>>

\* The entry the loop is at: self.listeners[i].
Current == listeners[i + 1]

\* Invoke with the handler working on a copy of the companion: what it adds
\* is lost.
InvokeOnCopy(c) ==
    /\ event_mut' = event_mut
    /\ uses' = IF Handles(Current)
               THEN [uses EXCEPT ![Current.id] = @ + 1] ELSE uses
    /\ trace' = Append(trace, [id |-> Current.id, cmd |-> c,
                               handled |-> Handles(Current)])

\* The effect of one on_event call that returns command c on the companion
\* and on the history: the handler, when one runs, adds 1 to the companion.
Invoke(c) ==
    /\ event_mut' = IF Handles(Current) THEN event_mut + 1 ELSE event_mut
    /\ uses' = IF Handles(Current)
               THEN [uses EXCEPT ![Current.id] = @ + 1] ELSE uses
    /\ trace' = Append(trace, [id |-> Current.id, cmd |-> c,
                               handled |-> Handles(Current)])

\* The entries of the call's start that the call has not reached when it is
\* stopped after the on_event call of Current.
Unreached ==
    {start[k].id : k \in 1..Len(start)}
        \ ({trace[k].id : k \in 1..Len(trace)} \cup {Current.id})

LoopGuard == pc = "loop" /\ i < len(listeners) /\ ~BorrowPanics(Current)

\* StepNone without i += 1: the index stays.
StepNoneStays ==
    /\ LoopGuard
    /\ "None" \in Returns(Current)
    /\ Invoke("None")
    /\ UNCHANGED <<listeners, alive, borrowed, pc, i, added, calls, start, missed,
                   event_mut0>>

\* lines 208-210: on_event returns None => i += 1
StepNone ==
    /\ LoopGuard
    /\ "None" \in Returns(Current)
    /\ Invoke("None")
    /\ i' = i + 1
    /\ UNCHANGED <<listeners, alive, borrowed, pc, added, calls, start, missed,
                   event_mut0>>

\* StepStopListening that scans again from the start after the removal.
StepStopListeningRestarts ==
    /\ LoopGuard
    /\ "StopListening" \in Returns(Current)
    /\ Invoke("StopListening")
    /\ listeners' = swap_remove(listeners, i)
    /\ i' = 0
    /\ UNCHANGED <<alive, borrowed, pc, added, calls, start, missed,
                   event_mut0>>

\* StepStopListening that advances the index after the removal, as a loop
\* over a vector it does not change would.
StepStopListeningAdvances ==
    /\ LoopGuard
    /\ "StopListening" \in Returns(Current)
    /\ Invoke("StopListening")
    /\ listeners' = swap_remove(listeners, i)
    /\ i' = i + 1
    /\ UNCHANGED <<alive, borrowed, pc, added, calls, start, missed,
                   event_mut0>>

\* lines 211-213: StopListening => swap_remove(i), i stays
StepStopListening ==
    /\ LoopGuard
    /\ "StopListening" \in Returns(Current)
    /\ Invoke("StopListening")
    /\ listeners' = swap_remove(listeners, i)
    /\ UNCHANGED <<alive, borrowed, pc, i, added, calls, start, missed,
                   event_mut0>>

\* StepStopPropagation taken for StopListeningAndPropagation: the entry is
\* removed as well.
StepStopPropagationRemoves ==
    /\ LoopGuard
    /\ "StopPropagation" \in Returns(Current)
    /\ Invoke("StopPropagation")
    /\ listeners' = swap_remove(listeners, i)
    /\ pc' = "idle"
    /\ missed' = [id \in Ids |-> IF id \in Unreached THEN missed[id] + 1
                                  ELSE missed[id]]
    /\ UNCHANGED <<alive, borrowed, i, added, calls, start, event_mut0>>

\* StepStopPropagation without the break: the loop goes on to the next entry.
StepStopPropagationGoesOn ==
    /\ LoopGuard
    /\ "StopPropagation" \in Returns(Current)
    /\ Invoke("StopPropagation")
    /\ i' = i + 1
    /\ UNCHANGED <<listeners, alive, borrowed, pc, added, calls, start, missed,
                   event_mut0>>

\* lines 214-216: StopPropagation => break
StepStopPropagation ==
    /\ LoopGuard
    /\ "StopPropagation" \in Returns(Current)
    /\ Invoke("StopPropagation")
    /\ pc' = "idle"
    /\ missed' = [id \in Ids |-> IF id \in Unreached THEN missed[id] + 1
                                  ELSE missed[id]]
    /\ UNCHANGED <<listeners, alive, borrowed, i, added, calls, start,
                   event_mut0>>

\* StepStopListeningAndPropagation without the break: it acts as StopListening.
StepStopListeningAndPropagationGoesOn ==
    /\ LoopGuard
    /\ "StopListeningAndPropagation" \in Returns(Current)
    /\ Invoke("StopListeningAndPropagation")
    /\ listeners' = swap_remove(listeners, i)
    /\ UNCHANGED <<alive, borrowed, pc, i, added, calls, start, missed,
                   event_mut0>>

\* lines 217-220: StopListeningAndPropagation => swap_remove(i); break
StepStopListeningAndPropagation ==
    /\ LoopGuard
    /\ "StopListeningAndPropagation" \in Returns(Current)
    /\ Invoke("StopListeningAndPropagation")
    /\ listeners' = swap_remove(listeners, i)
    /\ pc' = "idle"
    /\ missed' = [id \in Ids |-> IF id \in Unreached THEN missed[id] + 1
                                  ELSE missed[id]]
    /\ UNCHANGED <<alive, borrowed, i, added, calls, start,
                   event_mut0>>

\* lines 131-132: borrow_mut on a referent that is borrowed elsewhere panics;
\* dispatch unwinds at that point.
StepPanic ==
    /\ pc = "loop"
    /\ i < len(listeners)
    /\ BorrowPanics(Current)
    /\ pc' = "panicked"
    /\ UNCHANGED <<listeners, alive, borrowed, i, event_mut, hist>>

\* LoopExit with the loop condition off by one: while i < len - 1.
LoopExitOneShort ==
    /\ pc = "loop"
    /\ ~(i < len(listeners) - 1)
    /\ pc' = "idle"
    /\ UNCHANGED <<listeners, alive, borrowed, i, event_mut, hist>>

\* line 207: the loop condition fails, dispatch returns.
LoopExit ==
    /\ pc = "loop"
    /\ ~(i < len(listeners))
    /\ pc' = "idle"
    /\ UNCHANGED <<listeners, alive, borrowed, i, event_mut, hist>>

\* Some registered entry is a weak reference to referent r.
Watched(r) == \E k \in 1..Len(listeners) : listeners[k].ref = r

\* The owner of referent r drops its Rc: between dispatch calls, or from
\* inside a handler that owns it. (Dropping r before a weak reference to it is
\* added leaves the dispatcher where adding it and then dropping r does.)
DropReferent(r) ==
    /\ pc # "panicked"
    /\ Watched(r)
    /\ alive[r]
    /\ ~borrowed[r]
    /\ alive' = [alive EXCEPT ![r] = FALSE]
    /\ UNCHANGED <<listeners, borrowed, pc, i, event_mut, hist>>

\* The caller takes (and keeps) a RefMut of referent r before a dispatch.
BorrowElsewhere(r) ==
    /\ pc = "idle"
    /\ Watched(r)
    /\ alive[r]
    /\ ~borrowed[r]
    /\ borrowed' = [borrowed EXCEPT ![r] = TRUE]
    /\ UNCHANGED <<listeners, alive, pc, i, event_mut, hist>>

\* The caller lets go of its RefMut of referent r.
ReleaseElsewhere(r) ==
    /\ pc = "idle"
    /\ borrowed[r]
    /\ borrowed' = [borrowed EXCEPT ![r] = FALSE]
    /\ UNCHANGED <<listeners, alive, pc, i, event_mut, hist>>

Next ==
    \/ \E l \in NewListeners : Add(l)
    \/ \E m \in Companions : DispatchBegin(m)
    \/ StepNone
    \/ StepStopListening
    \/ StepStopPropagation
    \/ StepStopListeningAndPropagation
    \/ StepPanic
    \/ LoopExit
    \/ \E r \in Referents : DropReferent(r)
    \/ \E r \in Referents : BorrowElsewhere(r)
    \/ \E r \in Referents : ReleaseElsewhere(r)

Spec == Init /\ [][Next]_vars

\* The same program with the caller passing any of CompanionsWide.
NextWide ==
    \/ \E l \in NewListeners : Add(l)
    \/ \E m \in CompanionsWide : DispatchBegin(m)
    \/ StepNone
    \/ StepStopListening
    \/ StepStopPropagation
    \/ StepStopListeningAndPropagation
    \/ StepPanic
    \/ LoopExit
    \/ \E r \in Referents : DropReferent(r)
    \/ \E r \in Referents : BorrowElsewhere(r)
    \/ \E r \in Referents : ReleaseElsewhere(r)

SpecWide == Init /\ [][NextWide]_vars

TypeOK ==
    /\ pc \in {"idle", "loop", "panicked"}
    /\ i \in 0..MaxAdds
    /\ Len(listeners) <= MaxAdds

\* ------------------------------------------------------------ vocabulary
IdsOf(v) == {v[k].id : k \in 1..Len(v)}

Last(v) == v[Len(v)]

\* The latest dispatch call has returned.
Returned == pc = "idle" /\ calls > 0

\* self.listeners as the latest dispatch call left it: the entries that were
\* added before that call began (add only appends, so these come first).
AfterCall == SelectSeq(listeners, LAMBDA e : added[e.id].at < calls)

\* The number of entries that had been added when the latest call began.
AddedBefore == Cardinality({id \in 1..Len(added) : added[id].at < calls})

Stops == {"StopPropagation", "StopListeningAndPropagation"}

Removes == {"StopListening", "StopListeningAndPropagation"}

\* The entry with this id was added as an owned listener that returns c at
\* every invocation.
Always(id, c) == added[id].kind = "owned" /\ added[id].ret = c

\* The entry is live: owned, or a weak reference whose referent is alive.
Live(e) == e.kind = "owned" \/ alive[e.ref]

\* The handler of entry id ran this often in the latest dispatch call.
CalledTimes(id) ==
    Cardinality({k \in 1..Len(trace) : trace[k].id = id /\ trace[k].handled})

\* ------------------------------------------------------------------ C1
\* C1: when every on_event call of a dispatch call returned None, the call
\* invoked the entries of the listener sequence one by one in sequence order,
\* each exactly once and each with its handler run, and left the sequence as
\* it was; when nothing had been removed before the call, so that the sequence
\* holds L1..Ln as added, the order of invocation is L1, L2, ..., Ln.
C1_NoneInOrder ==
    (Returned /\ \A k \in 1..Len(trace) : trace[k].cmd = "None") =>
        /\ Len(trace) = Len(start)
        /\ \A k \in 1..Len(start) :
              trace[k].id = start[k].id /\ trace[k].handled
        /\ AfterCall = start
        /\ Len(start) = AddedBefore => \A k \in 1..Len(trace) : trace[k].id = k

C1_Witness ==
    /\ Returned
    /\ Len(start) = 3
    /\ Len(trace) = 3
    /\ \A k \in 1..3 : trace[k].cmd = "None" /\ trace[k].id = k

\* ------------------------------------------------------------------ C2
\* What every step does to removed entries.
C2_Step ==
    /\ (Len(trace') = Len(trace) + 1 /\ Last(trace').cmd \in Removes) =>
          Last(trace').id \notin IdsOf(listeners')
    /\ \A id \in 1..Len(added) :
          id \notin IdsOf(listeners) =>
              /\ id \notin IdsOf(listeners')
              /\ uses'[id] = uses[id]
              /\ Len(trace') = Len(trace) + 1 => Last(trace').id # id
    /\ \A id \in 1..Len(added) :
          (Always(id, "StopListening") \/ Always(id, "StopListeningAndPropagation"))
              => uses'[id] <= 1

\* C2: in every step, an on_event call that returns StopListening or
\* StopListeningAndPropagation takes its entry out of the listener sequence in
\* that same step; an entry that is out of the sequence stays out and is not
\* invoked again (its handler count does not change and no on_event call is
\* made on it); so an owned listener that always returns one of the two
\* commands is invoked at most once over all dispatch calls.
C2_RemovedIsTerminal == [][C2_Step]_vars

C2_Witness ==
    /\ Returned
    /\ calls = 3
    /\ Len(added) = 3
    /\ Always(1, "StopListening")
    /\ added[1].at = 0
    /\ uses[1] = 1
    /\ 1 \notin IdsOf(listeners)
    /\ Len(listeners) = 2

\* ------------------------------------------------------------------ C3
\* C3: a StopPropagation is the last on_event call of its dispatch call, and
\* when a call ends with it, the entries registered after the call are the
\* ones of its start less those that returned StopListening before it (the
\* entry that returned StopPropagation and the entries not reached stay).
\* When the first entry of a call is an owned listener that always returns
\* StopPropagation, the call invokes that entry once and nothing else and
\* leaves the sequence unchanged; so when the first listener ever added is
\* one, it stays first, it has been invoked once per dispatch call made since
\* it was added, and no other listener has ever been invoked.
C3_StopPropagation ==
    /\ \A k \in 1..(Len(trace) - 1) : trace[k].cmd # "StopPropagation"
    /\ (Returned /\ trace # << >> /\ Last(trace).cmd = "StopPropagation") =>
          /\ IdsOf(AfterCall) =
                IdsOf(start) \ {trace[k].id : k \in
                    {j \in 1..Len(trace) : trace[j].cmd = "StopListening"}}
          /\ Last(trace).id \in IdsOf(AfterCall)
    /\ (Returned /\ start # << >> /\ Always(start[1].id, "StopPropagation")) =>
          /\ trace = <<[id |-> start[1].id, cmd |-> "StopPropagation",
                        handled |-> TRUE]>>
          /\ AfterCall = start
    /\ (added # << >> /\ Always(1, "StopPropagation")) =>
          /\ listeners[1].id = 1
          /\ \A id \in 2..Len(added) : uses[id] = 0
          /\ pc = "idle" => uses[1] = calls - added[1].at
          /\ pc = "loop" => uses[1] \in {calls - added[1].at - 1, calls - added[1].at}

C3_Witness ==
    /\ Returned
    /\ calls = 3
    /\ Len(added) = 3
    /\ Always(1, "StopPropagation")
    /\ added[1].at = 0
    /\ added[2].at = 0
    /\ uses[1] = 3
    /\ uses[2] = 0
    /\ Len(listeners) = 3

\* ------------------------------------------------------------------ C4
\* Every listener added so far is an owned listener that always returns
\* StopListeningAndPropagation and was added before the first dispatch call.
C4_AllStopBoth ==
    \A id \in 1..Len(added) : Always(id, "StopListeningAndPropagation") /\ added[id].at = 0

\* C4: a StopListeningAndPropagation is the last on_event call of its dispatch
\* call and its entry is gone after the call. A call on a sequence of owned
\* listeners that all return StopListeningAndPropagation invokes the first
\* entry only and swap-removes it, and invokes nothing when the sequence is
\* empty. So with n such listeners, all added before the first call, and no
\* others: after c calls min(c, n) of them have been invoked, once each,
\* n - min(c, n) are left, the first call invoked the first listener, and
\* with n = 2 the second call invoked the second.
C4_StopListeningAndPropagation ==
    /\ \A k \in 1..(Len(trace) - 1) : trace[k].cmd # "StopListeningAndPropagation"
    /\ (Returned /\ trace # << >>
            /\ Last(trace).cmd = "StopListeningAndPropagation") =>
          Last(trace).id \notin IdsOf(listeners)
    /\ (Returned /\ \A k \in 1..Len(start) :
                        Always(start[k].id, "StopListeningAndPropagation")) =>
          IF start = << >>
          THEN trace = << >> /\ AfterCall = << >>
          ELSE /\ trace = <<[id |-> start[1].id, handled |-> TRUE,
                             cmd |-> "StopListeningAndPropagation"]>>
               /\ AfterCall = swap_remove(start, 0)
    /\ (pc = "idle" /\ C4_AllStopBoth) =>
          LET n == Len(added)
              done == IF calls < n THEN calls ELSE n
          IN  /\ \A id \in 1..n : uses[id] <= 1
              /\ Cardinality({id \in 1..n : uses[id] = 1}) = done
              /\ Len(listeners) = n - done
              /\ (n >= 1 /\ calls >= 1) => uses[1] = 1
              /\ (n = 2 /\ calls = 1) => uses[2] = 0
              /\ (n = 2 /\ calls >= 2) => uses[2] = 1

C4_Witness ==
    /\ pc = "idle"
    /\ C4_AllStopBoth
    /\ Len(added) = 2
    /\ calls = 3
    /\ uses[1] = 1
    /\ uses[2] = 1
    /\ trace = << >>
    /\ listeners = << >>

\* ------------------------------------------------------------------ C5
\* The step of dispatch at an expired weak entry, and the state after a call
\* on a sequence that holds one.
C5_Step ==
    (pc = "loop" /\ i < Len(listeners) /\ Current.kind = "weak"
        /\ ~alive[Current.ref]) =>
            /\ uses' = uses
            /\ event_mut' = event_mut
            /\ listeners' = swap_remove(listeners, i)
            /\ Current.id \notin IdsOf(listeners')
            /\ i' = i
            /\ pc' = "loop"
            /\ trace' = Append(trace, [id |-> Current.id, cmd |-> "StopListening",
                                       handled |-> FALSE])

C5_Returned ==
    (Returned /\ Len(start) = 1 /\ start[1].kind = "weak"
        /\ trace # << >> /\ ~trace[1].handled) =>
            /\ AfterCall = << >>
            /\ CalledTimes(start[1].id) = 0

\* C5: a step of dispatch at a weak entry whose referent has been dropped runs
\* no handler (no handler count changes), leaves the companion as it is, and
\* changes the listener sequence exactly as StopListening does: the entry is
\* swap-removed, the index stays and the loop goes on. And a call on a
\* sequence holding one such entry starts with a non-empty sequence and
\* leaves it empty.
C5_ExpiredWeak == [][C5_Step]_vars /\ []C5_Returned

C5_Witness ==
    /\ Returned
    /\ calls = 1
    /\ Len(start) = 1
    /\ start[1].kind = "weak"
    /\ ~alive[start[1].ref]
    /\ trace = <<[id |-> 1, cmd |-> "StopListening", handled |-> FALSE]>>
    /\ listeners = << >>
    /\ uses[1] = 0

\* ------------------------------------------------------------------ C6
\* What every step may take out of the listener sequence.
C6_Step ==
    /\ \A id \in IdsOf(listeners) \ IdsOf(listeners') :
          /\ pc = "loop"
          /\ i < Len(listeners)
          /\ Current.id = id
          /\ Len(trace') = Len(trace) + 1
          /\ Last(trace').id = id
          /\ Last(trace').cmd \in Removes
          /\ \/ Last(trace').handled
             \/ Current.kind = "weak" /\ ~alive[Current.ref]
                  /\ Last(trace').cmd = "StopListening"
    /\ Len(listeners') >= Len(listeners) - 1
    /\ Cardinality(IdsOf(listeners')) = Len(listeners')
    /\ added' # added => IdsOf(listeners) \subseteq IdsOf(listeners')

\* C6: the ids in the listener sequence are distinct, and in every step an
\* entry that leaves the sequence is the entry the dispatch loop is at, the
\* step is an on_event call on that entry, and the call returned
\* StopListening or StopListeningAndPropagation from its handler or was made
\* on a weak entry found expired; every other entry stays, and a step of add
\* removes nothing.
C6_OnlyOwnCommandRemoves == [][C6_Step]_vars

C6_Witness ==
    /\ Returned
    /\ Len(start) = 3
    /\ Len(trace) = 3
    /\ trace[1].cmd = "StopListening"
    /\ trace[2].cmd = "None"
    /\ trace[3].cmd = "None"
    /\ Len(AfterCall) = 2

\* ------------------------------------------------------------------ C7
\* C7 as stated: after every dispatch call, each live listener registered at
\* its start has been called exactly once, and the calls were made in the
\* order the listeners were added in.
C7_Original ==
    Returned =>
        /\ \A k \in 1..Len(start) : Live(start[k]) => CalledTimes(start[k].id) = 1
        /\ \A j, k \in 1..Len(trace) : j < k => trace[j].id < trace[k].id

\* C7, amended: in every dispatch call no entry is invoked twice and every
\* owned entry that is invoked has its handler run; a call that no listener
\* stops (no StopPropagation, no StopListeningAndPropagation) invokes every
\* entry registered at its start exactly once; the entries are invoked in
\* sequence order up to and including the first one that is removed, which is
\* the order they were added in when nothing had been removed before the
\* call; and after that first removal the former last entry is invoked next.
C7_OnceInSequenceOrder ==
    Returned =>
        /\ \A j, k \in 1..Len(trace) : j # k => trace[j].id # trace[k].id
        /\ \A k \in 1..Len(trace) :
              added[trace[k].id].kind = "owned" => trace[k].handled
        /\ (\A k \in 1..Len(trace) : trace[k].cmd \notin Stops) =>
              /\ Len(trace) = Len(start)
              /\ IdsOf(trace) = IdsOf(start)
        /\ \A k \in 1..Len(trace) :
              (\A j \in 1..(k - 1) : trace[j].cmd = "None") =>
                  /\ trace[k].id = start[k].id
                  /\ Len(start) = AddedBefore => trace[k].id = k
                  /\ (trace[k].cmd = "StopListening" /\ k < Len(start)) =>
                        trace[k + 1].id = start[Len(start)].id

C7_Witness ==
    /\ Returned
    /\ Len(start) = 3
    /\ Len(trace) = 3
    /\ trace[1].cmd = "StopListening"
    /\ trace[1].id = 1
    /\ trace[2].id = 3
    /\ trace[3].id = 2
    /\ ~trace[3].handled

\* ------------------------------------------------------------------ C8
\* C8: at every point of a dispatch call, and after it, no entry occurs twice
\* among the on_event calls of that call, whatever the calls returned.
C8_AtMostOncePerCall ==
    \A j, k \in 1..Len(trace) : j # k => trace[j].id # trace[k].id

C8_Witness ==
    /\ Returned
    /\ Len(start) = 3
    /\ Len(trace) = 3
    /\ trace[1].cmd = "StopListening"
    /\ ~trace[2].handled
    /\ trace[3].cmd = "StopListeningAndPropagation"
    /\ listeners = << >>

\* ------------------------------------------------------------------ C9
\* The entries the loop of dispatch has still to visit.
C9_Left == Len(listeners) - i

\* Inside dispatch some step of the loop can be taken.
C9_CanStep ==
    \/ ~(i < Len(listeners))
    \/ BorrowPanics(Current)
    \/ Returns(Current) # {}

C9_Inv ==
    /\ Len(trace) <= Len(start)
    /\ pc = "loop" =>
          /\ i <= Len(listeners)
          /\ Len(trace) + C9_Left = Len(start)
          /\ C9_CanStep

C9_Step ==
    pc = "loop" =>
        \/ pc' # "loop"
        \/ /\ Len(trace') = Len(trace) + 1
           /\ C9_Left' = C9_Left - 1
           /\ \/ i' = i + 1 /\ Len(listeners') = Len(listeners)
              \/ i' = i /\ Len(listeners') = Len(listeners) - 1
        \/ /\ UNCHANGED <<listeners, i, trace, pc>>
           /\ \E r \in Referents : alive[r] /\ ~alive'[r]

\* C9: a dispatch call makes at most as many on_event calls as there were
\* listeners at its start: inside the loop the calls made plus the entries
\* still to visit (len - i) equal that number, a step of the loop can always
\* be taken, and each one leaves the loop (the condition fails, a command
\* breaks, a borrow panics) or makes one on_event call and takes one off the
\* entries still to visit, by advancing the index or by shrinking the
\* sequence by one. (A referent dropped by a handler changes neither.)
C9_DispatchTerminates == []C9_Inv /\ [][C9_Step]_vars

C9_Witness ==
    /\ Returned
    /\ Len(start) = 3
    /\ Len(trace) = 3
    /\ i = 1
    /\ Len(listeners) = 1

\* ----------------------------------------------------------------- C10
\* C10 as stated: an owned listener that always returns None has been
\* invoked once for every dispatch call made since it was added.
C10_Original ==
    \A id \in 1..Len(added) :
        (pc = "idle" /\ Always(id, "None")) => uses[id] = calls - added[id].at

\* C10, amended: an owned listener that always returns None is never removed,
\* and it is invoked once in every dispatch call made after it was added,
\* except the calls that a listener ahead of it stopped (StopPropagation or
\* StopListeningAndPropagation) before they reached it: between calls, its
\* invocations plus those stopped calls are the calls made since it was added
\* (two calls that are not stopped give two invocations).
C10_InvokedUnlessStopped ==
    \A id \in 1..Len(added) :
        Always(id, "None") =>
            /\ id \in IdsOf(listeners)
            /\ pc = "idle" => uses[id] + missed[id] = calls - added[id].at
            /\ (Returned /\ id \in IdsOf(start)) =>
                  \/ CalledTimes(id) = 1
                  \/ /\ CalledTimes(id) = 0
                     /\ trace # << >>
                     /\ Last(trace).cmd \in Stops

C10_Witness ==
    /\ Returned
    /\ calls = 2
    /\ Len(added) = 2
    /\ Always(2, "None")
    /\ added[2].at = 0
    /\ missed[2] = 1
    /\ uses[2] = 1
    /\ CalledTimes(2) = 1

\* ----------------------------------------------------------------- C11
\* The handlers that have run in the latest dispatch call.
HandledCalls == Cardinality({k \in 1..Len(trace) : trace[k].handled})

\* C11: at every point of a dispatch call, and after it, the companion is the
\* value the call was given plus the number of handlers that have run in the
\* call so far, so each handler is handed what the handlers before it left;
\* and after a call that was given 0 and in which every entry of the sequence
\* ran its handler and returned None, the companion is the number of
\* listeners.
C11_CompanionAccumulates ==
    /\ event_mut = event_mut0 + HandledCalls
    /\ (Returned /\ event_mut0 = 0
            /\ \A k \in 1..Len(trace) : trace[k].cmd = "None") =>
          event_mut = Len(start)

C11_Witness ==
    /\ Returned
    /\ event_mut0 = 2
    /\ Len(start) = 3
    /\ Len(trace) = 3
    /\ \A k \in 1..3 : trace[k].cmd = "None" /\ trace[k].handled
    /\ event_mut = 5

\* ----------------------------------------------------------------- C12
\* What a step of add does.
C12_Step ==
    added' # added =>
        /\ Len(listeners') = Len(listeners) + 1
        /\ SubSeq(listeners', 1, Len(listeners)) = listeners
        /\ Last(listeners').id = Len(added')
        /\ Last(listeners').kind = Last(added').kind
        /\ Last(listeners').ret = Last(added').ret
        /\ Last(listeners').ref = Last(added').ref
        /\ UNCHANGED <<uses, trace, event_mut, pc, i, alive, borrowed>>

\* The listener added last before the latest dispatch call began.
C12_Newest ==
    CHOOSE id \in 1..Len(added) :
        /\ added[id].at < calls
        /\ \A other \in 1..Len(added) : added[other].at < calls => other <= id

C12_Inv ==
    /\ (pc = "idle" /\ Len(added) < MaxAdds) =>
          \A l \in NewListeners : ENABLED Add(l)
    /\ (Returned /\ start # << >>
            /\ \A k \in 1..Len(trace) : trace[k].cmd = "None") =>
          (added[C12_Newest].at = calls - 1 => Last(trace).id = C12_Newest)

\* C12: a step of add makes the listener sequence one longer, leaves the
\* entries it held where they were, puts the new listener last, invokes
\* nothing (no handler count, no on_event call, not the companion) and can
\* always be taken between dispatch calls, for every kind of listener; and
\* when every on_event call of the next dispatch call returns None, the
\* listener added last before that call is the last one invoked.
C12_AddAppends == [][C12_Step]_vars /\ []C12_Inv

C12_Witness ==
    /\ Returned
    /\ calls = 2
    /\ Len(added) = 3
    /\ added[3].at = 1
    /\ Len(start) = 2
    /\ Len(trace) = 2
    /\ \A k \in 1..2 : trace[k].cmd = "None"
    /\ trace[1].id = 2
    /\ trace[2].id = 3

\* ----------------------------------------------------------------- C13
\* C13: inside the loop of dispatch the entries of the call's start that have
\* not been invoked yet are exactly the entries at and behind the index, so
\* an entry swapped into the place of a removed one is still ahead; and when
\* a dispatch call returns without any on_event call having returned
\* StopPropagation or StopListeningAndPropagation, every entry registered at
\* its start has had exactly one on_event call, with the handler run for
\* every owned entry (for an expired weak entry the call answers
\* StopListening without a handler).
C13_AllReachedOnce ==
    /\ pc = "loop" =>
          IdsOf(start) \ IdsOf(trace) =
              {listeners[k].id : k \in (i + 1)..Len(listeners)}
    /\ (Returned /\ \A k \in 1..Len(trace) : trace[k].cmd \notin Stops) =>
          \A n \in 1..Len(start) :
              /\ Cardinality({k \in 1..Len(trace) : trace[k].id = start[n].id}) = 1
              /\ start[n].kind = "owned" => CalledTimes(start[n].id) = 1

C13_Witness ==
    /\ Returned
    /\ Len(start) = 3
    /\ Len(trace) = 3
    /\ trace[1].cmd = "StopListening"
    /\ trace[1].handled
    /\ trace[2].id = start[3].id
    /\ ~trace[2].handled
    /\ trace[3].cmd = "None"
    /\ trace[3].id = start[2].id
    /\ listeners = <<start[2]>>

\* ----------------------------------------------------------------- C14
\* What every step does to the order of the listener sequence.
C14_Step ==
    LET n == Len(listeners) IN
    /\ Len(trace') = Len(trace) + 1 =>
          /\ Last(trace').id = Current.id
          /\ Len(listeners') = IF Last(trace').cmd \in Removes THEN n - 1 ELSE n
          /\ Last(trace').cmd \notin Removes => listeners' = listeners
    /\ Len(listeners') = n - 1 =>
          /\ \A k \in 1..(n - 1) :
                listeners'[k] = IF k = i + 1 THEN listeners[n] ELSE listeners[k]
          /\ (pc' = "loop" /\ i < n - 1) =>
                /\ i' = i
                /\ listeners'[i' + 1] = listeners[n]
    /\ (Len(trace') # Len(trace) + 1 /\ added' = added) => listeners' = listeners
    /\ calls' # calls => start' = listeners

\* C14: an on_event call is made on the entry at the index; when it returns
\* StopListening or StopListeningAndPropagation (an expired weak entry
\* answers StopListening) the sequence of length n becomes one of length
\* n - 1 in which position i holds the former last entry (nothing, when i was
\* the last position) and every other entry keeps its index; after a
\* StopListening the index stays, so the entry at the index, the next one
\* invoked, is the former last entry; and no other step than these and add
\* changes the sequence, so the next dispatch call starts from that order.
C14_SwapRemoval == [][C14_Step]_vars

C14_Witness ==
    /\ Returned
    /\ calls = 2
    /\ Len(added) = 3
    /\ \A id \in 1..3 : added[id].at = 0
    /\ 1 \notin IdsOf(listeners)
    /\ start = listeners
    /\ Len(trace) = 2
    /\ trace[1].id = 3
    /\ trace[2].id = 2

\* ----------------------------------------------------------------- C15
\* C15: as long as every on_event call of a dispatch call has returned None
\* or StopPropagation, the listener sequence is the one the call started
\* with, entry by entry; so it is after the call returns.
C15_NoneAndStopPropagationKeep ==
    (calls > 0 /\ \A k \in 1..Len(trace) :
                     trace[k].cmd \in {"None", "StopPropagation"}) =>
        /\ AfterCall = start
        /\ pc # "idle" => listeners = start

C15_Witness ==
    /\ Returned
    /\ Len(start) = 3
    /\ Len(trace) = 2
    /\ trace[1].cmd = "None"
    /\ trace[2].cmd = "StopPropagation"
    /\ start[3].kind = "weak"
    /\ ~alive[start[3].ref]
    /\ AfterCall = start
    /\ listeners = start

\* ----------------------------------------------------------------- C16
\* What an on_event call does, by the kind of the entry it is made on.
C16_Step ==
    (pc = "loop" /\ i < Len(listeners) /\ Len(trace') = Len(trace) + 1) =>
        LET e == Current
            t == Last(trace')
            live == e.kind = "owned" \/ alive[e.ref]
        IN  /\ t.id = e.id
            /\ t.handled = live
            /\ uses'[e.id] = uses[e.id] + (IF live THEN 1 ELSE 0)
            /\ e.kind = "owned" => t.cmd = e.ret
            /\ ~live => t.cmd = "StopListening"
            /\ (e.id \in IdsOf(listeners')) = (t.cmd \notin Removes)
            /\ (pc' = "loop") = (t.cmd \notin Stops)
            /\ i' = IF t.cmd = "None" THEN i + 1 ELSE i

\* At a weak entry whose referent is alive and not borrowed, the referent may
\* return any of the commands.
C16_Inv ==
    (pc = "loop" /\ i < Len(listeners) /\ Current.kind = "weak"
        /\ alive[Current.ref] /\ ~borrowed[Current.ref]) =>
            /\ ENABLED StepNone
            /\ ENABLED StepStopListening
            /\ ENABLED StepStopPropagation
            /\ ENABLED StepStopListeningAndPropagation

\* C16: what an on_event call on a weak entry does is decided by whether its
\* referent is alive at that call. If it is, the handler of the referent runs
\* and the command it returns, which may be any, is applied as the command
\* of an owned listener is: the entry stays unless the command removes, the
\* loop goes on unless the command stops, the index advances on None only.
\* If it is not (the referent was dropped since an earlier call in which the
\* entry was invoked, or before), no handler runs and the entry is removed.
C16_WeakRechecked == [][C16_Step]_vars /\ []C16_Inv

C16_Witness ==
    /\ Returned
    /\ calls = 2
    /\ Len(added) = 1
    /\ added[1].kind = "weak"
    /\ added[1].at = 0
    /\ uses[1] = 1
    /\ trace = <<[id |-> 1, cmd |-> "StopListening", handled |-> FALSE]>>
    /\ listeners = << >>

\* ----------------------------------------------------------------- C17
\* The loop is at a weak entry whose live referent is borrowed elsewhere.
C17_Conflict ==
    /\ i < Len(listeners)
    /\ Current.kind = "weak"
    /\ alive[Current.ref]
    /\ borrowed[Current.ref]

C17_Step ==
    /\ (pc = "loop" /\ C17_Conflict) =>
          /\ pc' = "panicked"
          /\ UNCHANGED <<listeners, i, trace, uses, event_mut>>
    /\ pc' = "panicked" => pc = "loop" /\ C17_Conflict
    /\ pc # "panicked"

C17_Inv ==
    pc = "panicked" =>
        /\ C17_Conflict
        /\ Current.id \notin IdsOf(trace)
        /\ IdsOf(start) \ IdsOf(trace) =
              {listeners[k].id : k \in (i + 1)..Len(listeners)}
        /\ event_mut = event_mut0 + HandledCalls

\* C17: when the loop of dispatch is at a weak entry whose live referent is
\* borrowed elsewhere, the only step is the panic: no handler runs, no
\* on_event call is recorded, the companion, the index and the listener
\* sequence stay as they are; dispatch panics in no other case; and after
\* the panic nothing more happens in the dispatch: the entry is still at the
\* index, not invoked, and the sequence still holds it and every entry
\* behind it, none of them invoked.
C17_BorrowConflictPanics == [][C17_Step]_vars /\ []C17_Inv

C17_Witness ==
    /\ pc = "panicked"
    /\ Len(start) = 3
    /\ i = 1
    /\ Len(trace) = 1
    /\ trace[1].cmd = "None"
    /\ listeners = start
    /\ uses[start[2].id] = 0
    /\ uses[start[3].id] = 0

\* ----------------------------------------------------------------- C18
\* The entry is a weak reference whose referent has been dropped.
Expired(e) == e.kind = "weak" /\ ~alive[e.ref]

\* C18: after a dispatch call that ended with StopPropagation or
\* StopListeningAndPropagation, every entry of its start that it did not
\* reach is still in the listener sequence, an expired weak reference as
\* well; and when the first listener ever added is an owned listener that
\* always returns StopPropagation, every entry added after it is still in
\* the sequence, expired or not, whatever the number of dispatch calls.
C18_ExpiredStaysUnlessReached ==
    /\ (Returned /\ trace # << >> /\ Last(trace).cmd \in Stops) =>
          \A k \in 1..Len(start) :
              start[k].id \notin IdsOf(trace) =>
                  \E n \in 1..Len(listeners) : listeners[n] = start[k]
    /\ (added # << >> /\ Always(1, "StopPropagation")) =>
          /\ Len(listeners) = Len(added)
          /\ \A id \in 1..Len(added) : listeners[id].id = id

C18_Witness ==
    /\ Returned
    /\ calls = 3
    /\ Len(added) = 2
    /\ Always(1, "StopPropagation")
    /\ added[2].at = 0
    /\ uses[1] = 3
    /\ Len(listeners) = 2
    /\ Expired(listeners[2])
    /\ Expired(start[2])

\* ----------------------------------------------------------------- C19
\* Entry e is a weak reference to a referent that another entry of sequence v
\* refers to as well.
C19_Shared(v, e) ==
    /\ e.kind = "weak"
    /\ \E k \in 1..Len(v) : v[k].id # e.id /\ v[k].ref = e.ref

\* Every step: adding a weak reference to a referent the sequence already
\* refers to appends one more entry; no step of a dispatch call leaves a
\* borrow of a referent behind; and a removal at a shared entry removes the
\* entry at the index alone.
C19_Step ==
    /\ (added' # added /\ Last(added').kind = "weak"
            /\ Watched(Last(added').ref)) =>
          /\ listeners' = Append(listeners, Last(listeners'))
          /\ Last(listeners').ref = Last(added').ref
          /\ Last(listeners').id \notin IdsOf(listeners)
          /\ C19_Shared(listeners', Last(listeners'))
    /\ pc = "loop" => borrowed' = borrowed
    /\ (Len(trace') = Len(trace) + 1 /\ C19_Shared(listeners, Current)) =>
          /\ Last(trace').id = Current.id
          /\ (Last(trace').cmd = "StopListening" /\ Last(trace').handled) =>
                /\ Len(listeners') = Len(listeners) - 1
                /\ Current.id \notin IdsOf(listeners')
                /\ \A k \in 1..Len(listeners) :
                      listeners[k].id # Current.id =>
                          listeners[k].id \in IdsOf(listeners')

\* After a dispatch call in which every on_event call returned None, two
\* entries of its start that refer to the same referent have each run the
\* handler of the referent once, and both are still in the sequence.
C19_Inv ==
    (Returned /\ \A k \in 1..Len(trace) : trace[k].cmd = "None") =>
        \A j \in 1..Len(start) :
            C19_Shared(start, start[j]) =>
                /\ CalledTimes(start[j].id) = 1
                /\ AfterCall = start
                /\ event_mut >= event_mut0 + 2

\* C19: the dispatcher does not deduplicate: a second weak reference to a
\* referent becomes a second entry; a dispatch call in which the referent
\* returns None runs its handler once per entry, with no borrow conflict, as
\* no borrow outlasts an on_event call; and when the referent returns
\* StopListening from one invocation, only the entry at the index is removed.
C19_NoDeduplication == [][C19_Step]_vars /\ []C19_Inv

C19_Witness ==
    /\ Returned
    /\ Len(start) = 2
    /\ start[1].kind = "weak" /\ start[2].kind = "weak"
    /\ start[1].ref = start[2].ref
    /\ start[1].id # start[2].id
    /\ Len(trace) = 2
    /\ trace[1].cmd = "None" /\ trace[1].handled
    /\ trace[2].cmd = "None" /\ trace[2].handled
    /\ event_mut = event_mut0 + 2
    /\ listeners = start

====
